---- MODULE Spec2Model ----
(***************************************************************************)
(* Data Strategy Explorer: the gap-analysis / advisory-rule logic of       *)
(* journey_tab.py and lenses_tab.py, and of dashboard.py its Lenses and    *)
(* Journey tabs and its data source (the CSV load and the upload).         *)
(*                                                                         *)
(* A Streamlit script run renders the tabs top to bottom; the values the   *)
(* user gave the slider widgets are the inputs of the run.  Floats that    *)
(* the code computes (the maturity average) are kept as exact fractions    *)
(* [num, den]; strings keep the code's text with "->" for the arrow and    *)
(* "-" for the dash placeholder.                                           *)
(***************************************************************************)
EXTENDS Integers, Sequences, FiniteSets, TLC

VARIABLES
    session_state,  \* st.session_state: a function whose DOMAIN is the keys present
    pc,             \* position of the script run
    gap_df,         \* the sorted gap DataFrame of the Journey tab (<<>> before it is built)
    level_name,     \* render_journey's level_name ("" before it is computed)
    m_avg,          \* the maturity average of the run (NoAverage before it is computed)
    ui,             \* what the run has put on the page
    adv,            \* one call of conflict_for_target: its arguments and its outcome
    csv_dir,        \* dashboard.py: the CSV files of the working directory, name -> content
    uploader,       \* dashboard.py: the file in the upload widget, <<>> or <<content>>
    df,             \* dashboard.py: the table of the run, <<>> or <<table>>
    cache,          \* dashboard.py: what st.cache_data holds of the two loaders
    filters,        \* dashboard.py: the values of the sidebar's filter widgets in the run
    fdf             \* dashboard.py: the filtered rows of the run, <<>> or <<rows>>

\* the variables of the dashboard's data source
data == <<csv_dir, uploader, df, cache, filters, fdf>>

vars == <<session_state, pc, gap_df, level_name, m_avg, ui, adv, data>>

\* st.cache_data after clear(): no result of load_data_from_path (by file
\* name), none of load_data_from_bytes (by content)
EmptyCache == [paths |-> {}, bytes |-> {}]

\* the filter widgets before the sidebar is rendered
NoFilters ==
    [yr |-> <<>>, org_type_sel |-> {}, country_sel |-> {}, scope_sel |-> {}, q |-> ""]

\* no directory, no upload, no table: the applications without a data source
NoData ==
    /\ csv_dir = <<>>
    /\ uploader = <<>>
    /\ df = <<>>
    /\ cache = EmptyCache
    /\ filters = NoFilters
    /\ fdf = <<>>

(***************************************************************************)
(* Rubric definitions                                                      *)
(***************************************************************************)

MATURITY_THEMES == <<"Uses", "Data", "Leadership", "Culture", "Tools", "Skills">>

\* (mutant) two names of the scale stand in each other's place
MATURITY_SCALE_exchanged ==
    <<"Beginning", "Learning", "Emerging", "Developing", "Mastering">>

MATURITY_SCALE ==
    <<"Beginning", "Emerging", "Learning", "Developing", "Mastering">>

AXES == <<
    [name |-> "Abstraction Level",    left |-> "Conceptual",            right |-> "Logical / Physical"],
    [name |-> "Adaptability",         left |-> "Living",                right |-> "Fixed"],
    [name |-> "Ambition",             left |-> "Essential",             right |-> "Transformational"],
    [name |-> "Coverage",             left |-> "Horizontal",            right |-> "Use-case-based"],
    [name |-> "Governance Structure", left |-> "Ecosystem / Federated", right |-> "Centralised"],
    [name |-> "Orientation",          left |-> "Technology-focused",    right |-> "Value-focused"],
    [name |-> "Motivation",           left |-> "Compliance-driven",     right |-> "Innovation-driven"],
    [name |-> "Access Philosophy",    left |-> "Data-democratised",     right |-> "Controlled access"],
    [name |-> "Delivery Mode",        left |-> "Incremental",           right |-> "Big Bang"],
    [name |-> "Decision Model",       left |-> "Data-informed",         right |-> "Data-driven"] >>

DIMENSIONS == [i \in 1..Len(AXES) |-> AXES[i].name]

Range(s) == {s[i] : i \in 1..Len(s)}

\* Python's None
None == "None"

(***************************************************************************)
(* maturity_label                                                          *)
(***************************************************************************)

\* (mutant) halves go up, as in int(avg + 0.5)
PyRound_half_up(num, den) ==
    LET q == num \div den
        r == num % den
    IN  IF 2 * r < den THEN q ELSE q + 1

\* (mutant) int() in place of round(): the fraction is cut off
PyRound_truncating(num, den) == num \div den

\* Python 3 round() of the float num/den: nearest integer, halves to the even one.
PyRound(num, den) ==
    LET q == num \div den
        r == num % den
    IN  IF 2 * r < den THEN q
        ELSE IF 2 * r > den THEN q + 1
        ELSE IF q % 2 = 0 THEN q ELSE q + 1

Min2(a, b) == IF a < b THEN a ELSE b
Max2(a, b) == IF a > b THEN a ELSE b

maturity_label(avg) ==
    LET idx == Max2(1, Min2(5, PyRound(avg.num, avg.den)))
    IN  MATURITY_SCALE[idx]

\* m_avg before a run has computed it
NoAverage == [num |-> 0, den |-> 0]

(***************************************************************************)
(* conflict_for_target                                                     *)
(***************************************************************************)

BigBangRisk ==
    "Big-bang at Beginning/Emerging maturity is high risk - consider phased delivery."
FederatedFragments ==
    "Federated at low maturity can fragment standards - strengthen central controls first."
DemocratisationNeedsBasics ==
    "Wide democratisation needs strong basics - start with controlled, role-based access."
DataDrivenNeedsQuality ==
    "Highly data-driven decisions need robust data quality, monitoring and skills."
InnovationNeedsGuardrails ==
    "Innovation-first without guardrails can raise risk - keep compliance in the loop."
TooIncremental ==
    "At Developing/Mastering, being too incremental may under-deliver benefits."
OverCentralised ==
    "Highly centralised models may slow teams at higher maturity - consider selective federation."
ExcessControl ==
    "Excessive control may limit value realisation - revisit openness where safe."

\* `low = level in ("Beginning", "Emerging")`
\* (mutant) Learning counts as low readiness
IsLow_with_learning(level) == level \in {"Beginning", "Emerging", "Learning"}

IsLow(level) == level \in {"Beginning", "Emerging"}

\* (mutant) only Mastering counts as high readiness
IsHighish_mastering_only(level) == level = "Mastering"

\* `highish = level in ("Developing", "Mastering")`
IsHighish(level) == level \in {"Developing", "Mastering"}

\* one `if <cond>: return <msg>` line: the message when the condition holds
Rule(cond, msg) == IF cond THEN <<msg>> ELSE <<>>

\* (mutant) the Delivery Mode rule tests the low band instead of the high one
low_rules_delivery_mirrored(lens_name, target_score) ==
       Rule(lens_name = "Delivery Mode" /\ target_score <= 30, BigBangRisk)
    \o Rule(lens_name = "Governance Structure" /\ target_score <= 30, FederatedFragments)
    \o Rule(lens_name = "Access Philosophy" /\ target_score <= 30, DemocratisationNeedsBasics)
    \o Rule(lens_name = "Decision Model" /\ target_score >= 70, DataDrivenNeedsQuality)
    \o Rule(lens_name = "Motivation" /\ target_score >= 70, InnovationNeedsGuardrails)

\* (mutant) the first rule lost its lens test
low_rules_no_lens_test(lens_name, target_score) ==
       Rule(target_score >= 70, BigBangRisk)
    \o Rule(lens_name = "Governance Structure" /\ target_score <= 30, FederatedFragments)
    \o Rule(lens_name = "Access Philosophy" /\ target_score <= 30, DemocratisationNeedsBasics)
    \o Rule(lens_name = "Decision Model" /\ target_score >= 70, DataDrivenNeedsQuality)
    \o Rule(lens_name = "Motivation" /\ target_score >= 70, InnovationNeedsGuardrails)

\* the body of `if low:` -- the messages of the rules whose condition holds, in source order
low_rules(lens_name, target_score) ==
       Rule(lens_name = "Delivery Mode" /\ target_score >= 70, BigBangRisk)
    \o Rule(lens_name = "Governance Structure" /\ target_score <= 30, FederatedFragments)
    \o Rule(lens_name = "Access Philosophy" /\ target_score <= 30, DemocratisationNeedsBasics)
    \o Rule(lens_name = "Decision Model" /\ target_score >= 70, DataDrivenNeedsQuality)
    \o Rule(lens_name = "Motivation" /\ target_score >= 70, InnovationNeedsGuardrails)

\* (mutant) the two high-target rules use the 70 band of the low-readiness rules
highish_rules_band70(lens_name, target_score) ==
       Rule(lens_name = "Delivery Mode" /\ target_score <= 30, TooIncremental)
    \o Rule(lens_name = "Governance Structure" /\ target_score >= 70, OverCentralised)
    \o Rule(lens_name = "Access Philosophy" /\ target_score >= 70, ExcessControl)

\* (mutant) the Governance Structure rule mirrors the low-readiness one (low target)
highish_rules_governance_mirrored(lens_name, target_score) ==
       Rule(lens_name = "Delivery Mode" /\ target_score <= 30, TooIncremental)
    \o Rule(lens_name = "Governance Structure" /\ target_score <= 30, OverCentralised)
    \o Rule(lens_name = "Access Philosophy" /\ target_score >= 80, ExcessControl)

\* the body of `if highish:`
highish_rules(lens_name, target_score) ==
       Rule(lens_name = "Delivery Mode" /\ target_score <= 30, TooIncremental)
    \o Rule(lens_name = "Governance Structure" /\ target_score >= 80, OverCentralised)
    \o Rule(lens_name = "Access Philosophy" /\ target_score >= 80, ExcessControl)

\* every rule of the function whose guards all hold, in the order the code tests them
rules_matching(lens_name, target_score, maturity_avg) ==
    LET level == maturity_label(maturity_avg)
    IN     (IF IsLow(level) THEN low_rules(lens_name, target_score) ELSE <<>>)
        \o (IF IsHighish(level) THEN highish_rules(lens_name, target_score) ELSE <<>>)

\* the first matching rule returns; `return None` when none does
conflict_for_target(lens_name, target_score, maturity_avg) ==
    LET hits == rules_matching(lens_name, target_score, maturity_avg)
    IN  IF hits # <<>> THEN Head(hits) ELSE None

(***************************************************************************)
(* Program constants                                                       *)
(***************************************************************************)

ScoreMin == 0
ScoreMax == 100
ScoreDefault == 50
MaturityMin == 1
MaturityMax == 5
MaturityDefault == 3

\* st.session_state with no key set
EmptySession == [k \in {} |-> None]

NoCall ==
    [lens_name |-> "", target_score |-> 0, maturity_avg |-> [num |-> 0, den |-> 1],
     returned |-> FALSE, result |-> None, matched |-> {}]

(***************************************************************************)
(* SpecAdvise: conflict_for_target applied to every axis, every target     *)
(* score of the slider range and every average six theme scores can give   *)
(***************************************************************************)

AdviseInputs ==
    [lens_name : Range(DIMENSIONS),
     target_score : ScoreMin..ScoreMax,
     maturity_avg : {[num |-> s, den |-> Len(MATURITY_THEMES)] :
                        s \in (MaturityMin * Len(MATURITY_THEMES))..(MaturityMax * Len(MATURITY_THEMES))},
     returned : {FALSE}, result : {None}, matched : {{}}]

InitAdvise ==
    /\ session_state = EmptySession
    /\ pc = "advise"
    /\ gap_df = <<>>
    /\ level_name = ""
    /\ m_avg = NoAverage
    /\ ui = {}
    /\ adv \in AdviseInputs
    /\ NoData

Advise ==
    /\ pc = "advise"
    /\ ~adv.returned
    /\ adv' = [adv EXCEPT
                 !.returned = TRUE,
                 !.result = conflict_for_target(adv.lens_name, adv.target_score, adv.maturity_avg),
                 !.matched = Range(rules_matching(adv.lens_name, adv.target_score, adv.maturity_avg))]
    /\ UNCHANGED <<session_state, pc, gap_df, level_name, m_avg, ui, data>>

NextAdvise == Advise

SpecAdvise == InitAdvise /\ [][NextAdvise]_vars

(***************************************************************************)
(* Properties of conflict_for_target (SpecAdvise)                          *)
(***************************************************************************)

AdvLevel == maturity_label(adv.maturity_avg)
LowLevels == {"Beginning", "Emerging"}
HighLevels == {"Developing", "Mastering"}
LowMessages ==
    {BigBangRisk, FederatedFragments, DemocratisationNeedsBasics,
     DataDrivenNeedsQuality, InnovationNeedsGuardrails}
HighMessages == {TooIncremental, OverCentralised, ExcessControl}

\* C6 as stated: at high readiness the Governance Structure and Access
\* Philosophy high-target flags are returned for every target score 70..100.
C6_HighTargetFrom70 ==
    (adv.returned /\ AdvLevel \in HighLevels /\ adv.target_score >= 70) =>
        /\ adv.lens_name = "Governance Structure" => adv.result = OverCentralised
        /\ adv.lens_name = "Access Philosophy" => adv.result = ExcessControl

\* C6 amended: the rules use the bands target_score >= 70 and target_score <= 30,
\* except the two high-readiness high-target rules (Governance Structure, Access
\* Philosophy), whose flag is returned exactly for target_score >= 80.
C6_ScoreBands ==
    adv.returned =>
        /\ AdvLevel \in HighLevels =>
            /\ adv.lens_name = "Governance Structure" =>
                   (adv.result = OverCentralised <=> adv.target_score >= 80)
            /\ adv.lens_name = "Access Philosophy" =>
                   (adv.result = ExcessControl <=> adv.target_score >= 80)
            /\ adv.lens_name = "Delivery Mode" =>
                   (adv.result = TooIncremental <=> adv.target_score <= 30)
        /\ AdvLevel \in LowLevels =>
            /\ adv.lens_name = "Delivery Mode" =>
                   (adv.result = BigBangRisk <=> adv.target_score >= 70)
            /\ adv.lens_name = "Decision Model" =>
                   (adv.result = DataDrivenNeedsQuality <=> adv.target_score >= 70)
            /\ adv.lens_name = "Motivation" =>
                   (adv.result = InnovationNeedsGuardrails <=> adv.target_score >= 70)
            /\ adv.lens_name = "Governance Structure" =>
                   (adv.result = FederatedFragments <=> adv.target_score <= 30)
            /\ adv.lens_name = "Access Philosophy" =>
                   (adv.result = DemocratisationNeedsBasics <=> adv.target_score <= 30)

\* C6 witness: Governance Structure target 75 at Mastering returns no flag.
C6_Witness ==
    /\ adv.returned
    /\ AdvLevel = "Mastering"
    /\ adv.lens_name = "Governance Structure"
    /\ adv.target_score = 75
    /\ adv.result = None

\* C7: at low readiness a flag is returned exactly for Delivery Mode, Decision
\* Model or Motivation with target >= 70 and for Governance Structure or Access
\* Philosophy with target <= 30; with all six theme scores 1, Delivery Mode 90
\* gives the big-bang flag and Delivery Mode 10 gives none.
C7_LowReadinessFlags ==
    adv.returned =>
        /\ AdvLevel \in LowLevels =>
              (adv.result # None <=>
                  \/ /\ adv.lens_name \in {"Delivery Mode", "Decision Model", "Motivation"}
                     /\ adv.target_score >= 70
                  \/ /\ adv.lens_name \in {"Governance Structure", "Access Philosophy"}
                     /\ adv.target_score <= 30)
        /\ (adv.maturity_avg.num = 6 /\ adv.lens_name = "Delivery Mode") =>
              /\ AdvLevel = "Beginning"
              /\ adv.target_score = 90 => adv.result = BigBangRisk
              /\ adv.target_score = 10 => adv.result = None

\* C7 witness: all theme scores 1 (sum 6), Delivery Mode target 90, flagged.
C7_Witness ==
    /\ adv.returned
    /\ adv.maturity_avg.num = 6
    /\ adv.lens_name = "Delivery Mode"
    /\ adv.target_score = 90
    /\ adv.result = BigBangRisk

\* the lens/score condition of a high-readiness rule
HighRuleCondition ==
    \/ adv.lens_name = "Delivery Mode" /\ adv.target_score <= 30
    \/ adv.lens_name \in {"Governance Structure", "Access Philosophy"} /\ adv.target_score >= 80

\* C8: the high-readiness rules act exactly at Developing and Mastering: one of
\* their messages is returned only at those levels, and wherever a rule's
\* lens/score condition holds it is returned at those levels and at no other.
C8_HighRulesLevels ==
    adv.returned =>
        /\ adv.result \in HighMessages => AdvLevel \in HighLevels
        /\ HighRuleCondition => (adv.result \in HighMessages <=> AdvLevel \in HighLevels)

\* C8 witness: a high-readiness rule fires at Developing.
C8_Witness ==
    /\ adv.returned
    /\ AdvLevel = "Developing"
    /\ adv.result = TooIncremental

\* C9: at most one rule matches any input, never a low-readiness rule together
\* with a high-readiness one, and the message returned is that one rule's.
C9_AtMostOneMessage ==
    adv.returned =>
        /\ Cardinality(adv.matched) <= 1
        /\ ~(adv.matched \cap LowMessages # {} /\ adv.matched \cap HighMessages # {})
        /\ adv.result = None <=> adv.matched = {}
        /\ adv.result # None => adv.matched = {adv.result}

\* C9 witness: a call in which exactly one rule matched.
C9_Witness ==
    /\ adv.returned
    /\ Cardinality(adv.matched) = 1
    /\ adv.result \in adv.matched

(***************************************************************************)
(* Session state and ensure_sessions (lenses_tab.py)                       *)
(***************************************************************************)

\* session_state[key] = value
Put(ss, key, value) ==
    [k \in DOMAIN ss \cup {key} |-> IF k = key THEN value ELSE ss[k]]

\* session_state.get(key, default)
Get(ss, key, default) == IF key \in DOMAIN ss THEN ss[key] ELSE default

\* {k: 3 for k, _ in MATURITY_THEMES}
DefaultMaturity == [k \in Range(MATURITY_THEMES) |-> MaturityDefault]

\* {d: 50 for d in DIMENSIONS}
DefaultScores == [d \in Range(DIMENSIONS) |-> ScoreDefault]

\* pd.DataFrame(columns=[...]) with no rows
EmptyActions == <<>>

\* (mutant) the assignment without its "if key not in st.session_state"
SetDefault_overwriting(ss, key, value) == Put(ss, key, value)

\* if key not in st.session_state: st.session_state[key] = value
SetDefault(ss, key, value) == IF key \in DOMAIN ss THEN ss ELSE Put(ss, key, value)

\* (mutant) the defaults are written whether or not the key is present
ensure_sessions_resetting(ss) ==
    Put(Put(Put(Put(ss, "_maturity_scores", DefaultMaturity),
                "_current_scores", DefaultScores),
            "_target_scores", DefaultScores),
        "_actions_df", EmptyActions)

ensure_sessions(ss) ==
    SetDefault(
        SetDefault(
            SetDefault(
                SetDefault(ss, "_maturity_scores", DefaultMaturity),
                "_current_scores", DefaultScores),
            "_target_scores", DefaultScores),
        "_actions_df", EmptyActions)

(***************************************************************************)
(* render_lenses: the sliders write the widget values into the session     *)
(***************************************************************************)

\* bound: how many sliders stand away from their default value
MaxMoved == 2

\* the score-slider positions the model lets the user choose
SliderStops == {20, ScoreDefault, 80}

\* number of sliders of a session that are not at their default
Moved(ss) ==
      Cardinality({k \in DOMAIN ss["_maturity_scores"] :
                      ss["_maturity_scores"][k] # MaturityDefault})
    + Cardinality({d \in DOMAIN ss["_current_scores"] :
                      ss["_current_scores"][d] # ScoreDefault})
    + Cardinality({d \in DOMAIN ss["_target_scores"] :
                      ss["_target_scores"][d] # ScoreDefault})

\* the user's change since the last run: one slider at a new value, or nothing
MaturityInputs ==
    {[key |-> "_maturity_scores", name |-> k, value |-> v] :
        k \in Range(MATURITY_THEMES), v \in MaturityMin..MaturityMax}

ScoreInputs(stops) ==
    {[key |-> p, name |-> d, value |-> v] :
        p \in {"_current_scores", "_target_scores"},
        d \in Range(DIMENSIONS), v \in stops}

SliderInputs == MaturityInputs \cup ScoreInputs(SliderStops)

\* no slider has been touched: every st.slider returns the value it was given
NoInput == [key |-> "", name |-> "", value |-> 0]

\* what the user can have done to the sliders since the last run: nothing in
\* the run that renders them for the first time
InputsOn(ss, inputs) ==
    IF "_current_scores" \in DOMAIN ss THEN inputs \cup {NoInput} ELSE {NoInput}

\* session_state[key][name] = st.slider(...), for every slider of the tab
WriteSliders(ss, input) ==
    IF input = NoInput THEN ss
    ELSE [ss EXCEPT ![input.key] = [@ EXCEPT ![input.name] = input.value]]

render_lenses ==
    /\ pc = "lenses"
    /\ \E input \in InputsOn(session_state, SliderInputs) :
         LET ss == WriteSliders(ensure_sessions(session_state), input)
         IN  /\ Moved(ss) <= MaxMoved
             /\ session_state' = ss
    /\ pc' = "journey"
    /\ gap_df' = <<>>
    /\ level_name' = ""
    /\ m_avg' = NoAverage
    /\ ui' = {}
    /\ UNCHANGED <<adv, data>>

(***************************************************************************)
(* render_journey: the gap rows, their ranking and the seeded actions      *)
(***************************************************************************)

TOP_N == 3

RECURSIVE SumValues(_, _)
\* sum(f[k] for k in keys)
SumValues(f, keys) ==
    IF keys = {} THEN 0
    ELSE LET k == CHOOSE x \in keys : TRUE
         IN  f[k] + SumValues(f, keys \ {k})

\* sum(m_scores.values()) / len(m_scores), kept exact
Average(m_scores) ==
    [num |-> SumValues(m_scores, DOMAIN m_scores), den |-> Cardinality(DOMAIN m_scores)]

Abs(n) == IF n < 0 THEN -n ELSE n

\* bool(conflict): None is false, a message is true
Bool(conflict) == conflict # None

\* (mutant) the difference is taken the wrong way round
GapRow_current_minus_target(axis, current, target, avg) ==
    LET diff == current[axis.name] - target[axis.name]
        conflict == conflict_for_target(axis.name, target[axis.name], avg)
    IN  [Lens |-> axis.name,
         Current |-> current[axis.name],
         Target |-> target[axis.name],
         Change_needed |-> diff,
         Magnitude |-> Abs(diff),
         Direction |-> IF diff > 0 THEN "-> **" \o axis.right \o "**"
                       ELSE IF diff < 0 THEN "-> **" \o axis.left \o "**"
                       ELSE "-",
         Conflict |-> Bool(conflict),
         Conflict_note |-> IF conflict = None THEN "" ELSE conflict]

\* (mutant) the left and right labels are exchanged
GapRow_labels_exchanged(axis, current, target, avg) ==
    LET diff == target[axis.name] - current[axis.name]
        conflict == conflict_for_target(axis.name, target[axis.name], avg)
    IN  [Lens |-> axis.name,
         Current |-> current[axis.name],
         Target |-> target[axis.name],
         Change_needed |-> diff,
         Magnitude |-> Abs(diff),
         Direction |-> IF diff > 0 THEN "-> **" \o axis.left \o "**"
                       ELSE IF diff < 0 THEN "-> **" \o axis.right \o "**"
                       ELSE "-",
         Conflict |-> Bool(conflict),
         Conflict_note |-> IF conflict = None THEN "" ELSE conflict]

\* (mutant) the scores are brought into 0..100 before they are used
GapRow_clamped(axis, current, target, avg) ==
    LET cur == Max2(ScoreMin, Min2(ScoreMax, current[axis.name]))
        tgt == Max2(ScoreMin, Min2(ScoreMax, target[axis.name]))
        diff == tgt - cur
        conflict == conflict_for_target(axis.name, tgt, avg)
    IN  [Lens |-> axis.name,
         Current |-> cur,
         Target |-> tgt,
         Change_needed |-> diff,
         Magnitude |-> Abs(diff),
         Direction |-> IF diff > 0 THEN "-> **" \o axis.right \o "**"
                       ELSE IF diff < 0 THEN "-> **" \o axis.left \o "**"
                       ELSE "-",
         Conflict |-> Bool(conflict),
         Conflict_note |-> IF conflict = None THEN "" ELSE conflict]

\* one dict of `rows`
GapRow(axis, current, target, avg) ==
    LET diff == target[axis.name] - current[axis.name]
        conflict == conflict_for_target(axis.name, target[axis.name], avg)
    IN  [Lens |-> axis.name,
         Current |-> current[axis.name],
         Target |-> target[axis.name],
         Change_needed |-> diff,
         Magnitude |-> Abs(diff),
         Direction |-> IF diff > 0 THEN "-> **" \o axis.right \o "**"
                       ELSE IF diff < 0 THEN "-> **" \o axis.left \o "**"
                       ELSE "-",
         Conflict |-> Bool(conflict),
         Conflict_note |-> IF conflict = None THEN "" ELSE conflict]

\* (mutant) axes that need no change get no row
gap_rows_changed_only(current, target, avg) ==
    SelectSeq([i \in 1..Len(AXES) |-> GapRow(AXES[i], current, target, avg)],
              LAMBDA r : r.Magnitude # 0)

\* the loop over AXES: one row per axis, in declaration order
gap_rows(current, target, avg) ==
    [i \in 1..Len(AXES) |-> GapRow(AXES[i], current, target, avg)]

\* (mutant) the sort key leaves the Conflict column out
SortsBefore_magnitude_only(a, b) == a.Magnitude > b.Magnitude

\* sort keys ["Conflict", "Magnitude"], ascending=[False, False]: a sorts strictly before b
SortsBefore(a, b) ==
    \/ a.Conflict /\ ~b.Conflict
    \/ a.Conflict = b.Conflict /\ a.Magnitude > b.Magnitude

RECURSIVE InsertStable(_, _)
\* r goes behind every row that does not sort strictly after it
InsertStable(sorted, r) ==
    IF sorted = <<>> THEN <<r>>
    ELSE IF SortsBefore(r, Head(sorted)) THEN <<r>> \o sorted
    ELSE <<Head(sorted)>> \o InsertStable(Tail(sorted), r)

RECURSIVE sort_values(_)
\* DataFrame.sort_values on two columns: pandas' lexsort, a stable sort
sort_values(rows) ==
    IF rows = <<>> THEN <<>>
    ELSE InsertStable(sort_values(SubSeq(rows, 1, Len(rows) - 1)), rows[Len(rows)])

\* DataFrame.head(n)
head(frame, n) == SubSeq(frame, 1, Min2(n, Len(frame)))

\* [a for a in AXES if a[0] == d][0]
AxisNamed(d) ==
    AXES[CHOOSE i \in 1..Len(AXES) :
            /\ AXES[i].name = d
            /\ \A j \in 1..(i - 1) : AXES[j].name # d]

\* (mutant) enumerate() without start=1
ActionRow_zero_based(i, row) ==
    LET diff == row.Change_needed
        axis == AxisNamed(row.Lens)
    IN  [Priority |-> i - 1,
         Lens |-> row.Lens,
         Direction |-> IF diff > 0 THEN "toward " \o axis.right
                       ELSE IF diff < 0 THEN "toward " \o axis.left
                       ELSE "no change",
         Owner |-> "", Timeline |-> "", Metric |-> "", Status |-> ""]

\* (mutant) the left and right labels are exchanged
ActionRow_labels_exchanged(i, row) ==
    LET diff == row.Change_needed
        axis == AxisNamed(row.Lens)
    IN  [Priority |-> i,
         Lens |-> row.Lens,
         Direction |-> IF diff > 0 THEN "toward " \o axis.left
                       ELSE IF diff < 0 THEN "toward " \o axis.right
                       ELSE "no change",
         Owner |-> "", Timeline |-> "", Metric |-> "", Status |-> ""]

\* (mutant) a change of 0 counts as a move to the right
ActionRow_zero_is_right(i, row) ==
    LET diff == row.Change_needed
        axis == AxisNamed(row.Lens)
    IN  [Priority |-> i,
         Lens |-> row.Lens,
         Direction |-> IF diff >= 0 THEN "toward " \o axis.right
                       ELSE "toward " \o axis.left,
         Owner |-> "", Timeline |-> "", Metric |-> "", Status |-> ""]

\* one dict of `actions_rows`
ActionRow(i, row) ==
    LET diff == row.Change_needed
        axis == AxisNamed(row.Lens)
    IN  [Priority |-> i,
         Lens |-> row.Lens,
         Direction |-> IF diff > 0 THEN "toward " \o axis.right
                       ELSE IF diff < 0 THEN "toward " \o axis.left
                       ELSE "no change",
         Owner |-> "", Timeline |-> "", Metric |-> "", Status |-> ""]

\* the "Seed actions" loop over top.iterrows()
seed_actions(top) == [i \in 1..Len(top) |-> ActionRow(i, top[i])]

\* the exception that ends the run where the code computes m_avg and the
\* rows: sum / len of an empty m_scores, target[d] or current[d] of an absent axis
journey_exception(current, target, m_scores) ==
    IF DOMAIN m_scores = {} THEN "ZeroDivisionError"
    ELSE IF \E d \in Range(DIMENSIONS) : d \notin DOMAIN target \/ d \notin DOMAIN current
         THEN "KeyError"
    ELSE None

render_journey ==
    /\ pc = "journey"
    /\ LET ss == ensure_sessions(session_state)
           current == Get(ss, "_current_scores", DefaultScores)
           target == Get(ss, "_target_scores", DefaultScores)
           m_scores == Get(ss, "_maturity_scores", DefaultMaturity)
           raised == journey_exception(current, target, m_scores)
           avg == Average(m_scores)
           sorted == sort_values(gap_rows(current, target, avg))
           top == head(sorted, TOP_N)
       IN  IF raised # None
           THEN /\ session_state' = ss
                /\ m_avg' = NoAverage
                /\ level_name' = ""
                /\ gap_df' = <<>>
                /\ ui' = {raised}
           ELSE /\ m_avg' = avg
                /\ level_name' = maturity_label(avg)
                /\ gap_df' = sorted
                /\ IF Len(top) > 0
                   THEN /\ session_state' = Put(ss, "_actions_df", seed_actions(top))
                        /\ ui' = {"summary", "gap_table", "bar_chart", "priority_shifts"}
                   ELSE /\ session_state' = ss
                        /\ ui' = {"summary", "gap_table", "bar_chart", "identical_notice"}
    /\ pc' = "lenses"
    /\ UNCHANGED <<adv, data>>

(***************************************************************************)
(* Spec: the script runs of a session, from an empty session state         *)
(***************************************************************************)

Init ==
    /\ session_state = EmptySession
    /\ pc = "lenses"
    /\ gap_df = <<>>
    /\ level_name = ""
    /\ m_avg = NoAverage
    /\ ui = {}
    /\ adv = NoCall
    /\ NoData

Next ==
    \/ render_lenses
    \/ render_journey

Spec == Init /\ [][Next]_vars

(***************************************************************************)
(* SpecJourney: render_journey applied to sessions drawn from a bounded    *)
(* set -- every maturity level, at most MaxGaps score sliders moved, and   *)
(* the session in which nothing has been set yet                           *)
(***************************************************************************)

\* bound: how many score sliders of a drawn session stand away from 50
MaxGaps == 2

\* the score values of the drawn sessions
JourneyStops == {0, 20, ScoreDefault, 80}

RECURSIVE ScoreSettings(_)
\* the sessions that k slider moves lead to from the defaults
ScoreSettings(k) ==
    IF k = 0 THEN {ensure_sessions(EmptySession)}
    ELSE LET fewer == ScoreSettings(k - 1)
         IN  fewer \cup {WriteSliders(ss, input) :
                          ss \in fewer, input \in ScoreInputs(JourneyStops)}

JourneySessions ==
    {Put(ss, "_maturity_scores", [k \in Range(MATURITY_THEMES) |-> v]) :
        ss \in ScoreSettings(MaxGaps), v \in MaturityMin..MaturityMax}

InitJourney ==
    /\ session_state \in JourneySessions \cup {EmptySession}
    /\ pc = "journey"
    /\ gap_df = <<>>
    /\ level_name = ""
    /\ m_avg = NoAverage
    /\ ui = {}
    /\ adv = NoCall
    /\ NoData

NextJourney == render_journey

SpecJourney == InitJourney /\ [][NextJourney]_vars

(***************************************************************************)
(* SpecAggregate: the Maturity section of render_lenses -- the six theme   *)
(* sliders, then the average and the overall level -- from every profile   *)
(***************************************************************************)

\* every profile the six theme sliders can hold
MaturityProfiles == [Range(MATURITY_THEMES) -> MaturityMin..MaturityMax]

\* section "1) Understand maturity": the sliders write the profile, then
\* m_avg = sum(m_scores.values()) / len(m_scores) and
\* current_level_name = maturity_label(m_avg)
maturity_section ==
    /\ pc = "maturity"
    /\ \E input \in MaturityInputs :
         LET ss == WriteSliders(ensure_sessions(session_state), input)
             avg == Average(ss["_maturity_scores"])
         IN  /\ session_state' = ss
             /\ m_avg' = avg
             /\ level_name' = maturity_label(avg)
    /\ UNCHANGED <<pc, gap_df, ui, adv, data>>

InitAggregate ==
    /\ \E profile \in MaturityProfiles :
          session_state = Put(ensure_sessions(EmptySession), "_maturity_scores", profile)
    /\ pc = "maturity"
    /\ gap_df = <<>>
    /\ level_name = ""
    /\ m_avg = NoAverage
    /\ ui = {}
    /\ adv = NoCall
    /\ NoData

NextAggregate == maturity_section

SpecAggregate == InitAggregate /\ [][NextAggregate]_vars

(***************************************************************************)
(* SpecInvalid: render_journey applied to sessions in which one profile    *)
(* is not a full profile of in-range values.  The sliders never write such *)
(* a profile; the sessions are drawn to see what the function does with it *)
(***************************************************************************)

\* a dict without the key k
Without(f, k) == [x \in DOMAIN f \ {k} |-> f[x]]

\* a dict with the key k at the value v, k new or not
With(f, k, v) == [x \in DOMAIN f \cup {k} |-> IF x = k THEN v ELSE f[x]]

\* keys that no profile declares
ForeignKeys == {"Unknown"}

\* values on either side of a range
OutOfRange(lo, hi) == {lo - 10, lo - 1, hi + 1, hi + 50}

\* the profiles one defect away from the profile f with keys in lo..hi
Defective(f, lo, hi) ==
    {Without(f, k) : k \in DOMAIN f}
        \cup {With(f, k, f[CHOOSE x \in DOMAIN f : TRUE]) : k \in ForeignKeys}
        \cup {With(f, k, v) : k \in DOMAIN f, v \in OutOfRange(lo, hi)}

\* default scores, every theme at one level, and one defective profile
InvalidSessions ==
    LET base == {Put(ensure_sessions(EmptySession), "_maturity_scores",
                     [k \in Range(MATURITY_THEMES) |-> v]) : v \in MaturityMin..MaturityMax}
    IN  UNION {
            {Put(ss, "_current_scores", f) :
                     f \in Defective(ss["_current_scores"], ScoreMin, ScoreMax)}
            \cup {Put(ss, "_target_scores", f) :
                     f \in Defective(ss["_target_scores"], ScoreMin, ScoreMax)}
            \cup {Put(ss, "_maturity_scores", f) :
                     f \in Defective(ss["_maturity_scores"], MaturityMin, MaturityMax)
                           \cup {[k \in {} |-> 0]}}
            : ss \in base}

InitInvalid ==
    /\ session_state \in InvalidSessions
    /\ pc = "journey"
    /\ gap_df = <<>>
    /\ level_name = ""
    /\ m_avg = NoAverage
    /\ ui = {}
    /\ adv = NoCall
    /\ NoData

NextInvalid == render_journey

SpecInvalid == InitInvalid /\ [][NextInvalid]_vars

(***************************************************************************)
(* dashboard.py: its own ensure_sessions, Lenses tab and Journey tab       *)
(***************************************************************************)

\* bound: how many adjacent equal-magnitude rows the unstable sort may exchange
MaxTieSwaps == 1

\* bound: how many score sliders of the dashboard stand away from 50
MaxDashMoved == 1

dash_ensure_sessions(ss) ==
    SetDefault(SetDefault(ss, "_current_scores", DefaultScores),
               "_target_scores", DefaultScores)

ScoresMoved(ss) ==
      Cardinality({d \in DOMAIN ss["_current_scores"] :
                      ss["_current_scores"][d] # ScoreDefault})
    + Cardinality({d \in DOMAIN ss["_target_scores"] :
                      ss["_target_scores"][d] # ScoreDefault})

tab_lenses ==
    /\ pc = "tab_lenses"
    /\ \E input \in InputsOn(session_state, ScoreInputs(SliderStops)) :
         LET ss == WriteSliders(dash_ensure_sessions(session_state), input)
         IN  /\ ScoresMoved(ss) <= MaxDashMoved
             /\ session_state' = ss
    /\ pc' = "tab_journey"
    /\ gap_df' = <<>>
    /\ ui' = {}
    /\ UNCHANGED <<level_name, m_avg, adv, data>>

\* the "Hard refresh (cache + state)" button of the Explore tab, which the run
\* reaches before the Lenses tab: every key of the session state is deleted
\* and the script is run again
hard_refresh ==
    /\ pc = "tab_lenses"
    /\ session_state' = EmptySession
    /\ pc' = "tab_lenses"
    /\ gap_df' = <<>>
    /\ ui' = {}
    /\ UNCHANGED <<level_name, m_avg, adv, data>>

\* one dict of `rows` (no conflict columns in this version)
DashGapRow(axis, current, target) ==
    LET diff == target[axis.name] - current[axis.name]
    IN  [Lens |-> axis.name,
         Current |-> current[axis.name],
         Target |-> target[axis.name],
         Change_needed |-> diff,
         Magnitude |-> Abs(diff),
         Direction |-> IF diff > 0 THEN "-> **" \o axis.right \o "**"
                       ELSE IF diff < 0 THEN "-> **" \o axis.left \o "**"
                       ELSE "-"]

dash_gap_rows(current, target) ==
    [i \in 1..Len(AXES) |-> DashGapRow(AXES[i], current, target)]

RECURSIVE InsertByMagnitude(_, _)
InsertByMagnitude(sorted, r) ==
    IF sorted = <<>> THEN <<r>>
    ELSE IF r.Magnitude > Head(sorted).Magnitude THEN <<r>> \o sorted
    ELSE <<Head(sorted)>> \o InsertByMagnitude(Tail(sorted), r)

RECURSIVE SortByMagnitude(_)
\* the rows by descending Magnitude, equal magnitudes in their given order
SortByMagnitude(rows) ==
    IF rows = <<>> THEN <<>>
    ELSE InsertByMagnitude(SortByMagnitude(SubSeq(rows, 1, Len(rows) - 1)), rows[Len(rows)])

SwapAt(frame, i) ==
    [j \in 1..Len(frame) |-> IF j = i THEN frame[i + 1] ELSE IF j = i + 1 THEN frame[i] ELSE frame[j]]

RECURSIVE TieOrders(_, _)
\* the orders that up to k exchanges of adjacent equal-magnitude rows give
TieOrders(frame, k) ==
    IF k = 0 THEN {frame}
    ELSE LET fewer == TieOrders(frame, k - 1)
         IN  fewer \cup UNION {
                 {SwapAt(d, i) : i \in {j \in 1..(Len(d) - 1) : d[j].Magnitude = d[j + 1].Magnitude}} :
                 d \in fewer}

\* sort_values("Magnitude", ascending=False) with the default kind="quicksort":
\* descending magnitudes, the order of equal magnitudes left to the sort
sort_values_quicksort(rows) == TieOrders(SortByMagnitude(rows), MaxTieSwaps)

tab_journey ==
    /\ pc = "tab_journey"
    /\ LET dims == DIMENSIONS
           current == Get(session_state, "_current_scores", [d \in Range(dims) |-> ScoreDefault])
           target == Get(session_state, "_target_scores", [d \in Range(dims) |-> ScoreDefault])
       IN  \E sorted \in sort_values_quicksort(dash_gap_rows(current, target)) :
              /\ gap_df' = sorted
              /\ ui' = IF Len(head(sorted, TOP_N)) > 0
                       THEN {"gap_table", "bar_chart", "priority_shifts"}
                       ELSE {"gap_table", "bar_chart", "identical_notice"}
    /\ pc' = "tab_lenses"
    /\ UNCHANGED <<session_state, level_name, m_avg, adv, data>>

InitDashboard ==
    /\ session_state = EmptySession
    /\ pc = "tab_lenses"
    /\ gap_df = <<>>
    /\ level_name = ""
    /\ m_avg = NoAverage
    /\ ui = {}
    /\ adv = NoCall
    /\ NoData

NextDashboard ==
    \/ hard_refresh
    \/ tab_lenses
    \/ tab_journey

SpecDashboard == InitDashboard /\ [][NextDashboard]_vars

(***************************************************************************)
(* SpecSessions: the session state of either application                   *)
(***************************************************************************)

InitSessions == Init \/ InitDashboard

NextSessions == Next \/ NextDashboard

SpecSessions == InitSessions /\ [][NextSessions]_vars

(***************************************************************************)
(* dashboard.py: the data source.  A CSV, on disk or uploaded, is the set  *)
(* of its column names and its rows; a row gives every column its text.    *)
(* SpecData follows the table and the upload from run to run; the Lenses   *)
(* and Journey tabs, which touch neither, are left to SpecDashboard.       *)
(***************************************************************************)

REQUIRED == <<"id", "title", "organisation", "org_type", "country", "year", "scope",
              "link", "summary", "source", "date_added">>

\* a CSV row: the id, the year as written, the org type, the country and the
\* scope; every other cell blank (read_csv(...).fillna(""))
CsvRow(columns, cell) ==
    [c \in columns |-> CASE c = "id" -> cell[1]
                          [] c = "year" -> cell[2]
                          [] c = "org_type" -> cell[3]
                          [] c = "country" -> cell[4]
                          [] c = "scope" -> cell[5]
                          [] OTHER -> ""]

\* a CSV with the given columns and the given
\* <<id, year, org_type, country, scope>> rows
Csv(columns, cells) ==
    [columns |-> columns,
     rows |-> [i \in 1..Len(cells) |-> CsvRow(columns, cells[i])]]

\* the CSV contents of the model: a complete one with an unparsable year and
\* blank cells, one with a column more and every cell filled, one without
\* "year", one with two columns only
CompleteCsv ==
    Csv(Range(REQUIRED), <<(<<"s1", "2021", "Ministry", "UK", "National">>),
                           (<<"s2", "n/a", "Agency", "UK", "National">>),
                           (<<"s3", "2019", "", "", "">>)>>)
WiderCsv ==
    Csv(Range(REQUIRED) \cup {"notes"},
        <<(<<"w1", "2019", "Agency", "UK", "Local">>),
          (<<"w2", "2021", "Agency", "FR", "Local">>)>>)
NoYearCsv == Csv(Range(REQUIRED) \ {"year"}, <<(<<"y1", "", "Agency", "UK", "Local">>)>>)
TwoColumnCsv == Csv({"id", "title"}, <<(<<"t1", "", "", "", "">>)>>)
CsvContents == {CompleteCsv, WiderCsv, NoYearCsv, TwoColumnCsv}

\* the file names of the model, as sorted() orders them
FileNames == <<"other.csv", "strategies.csv">>

\* the working directories of the model
Directories ==
    UNION {[names -> CsvContents] : names \in SUBSET Range(FileNames)}

\* float("nan"): a value of the float column that is no year
NaN == -1

\* pd.to_numeric(text, errors="coerce") of one cell
to_numeric(text) ==
    CASE text = "2019" -> 2019
      [] text = "2021" -> 2021
      [] OTHER -> NaN

RECURSIVE Joined(_)
\* ", ".join(repr(c) for c in columns)
Joined(columns) ==
    IF columns = <<>> THEN ""
    ELSE IF Len(columns) = 1 THEN "'" \o columns[1] \o "'"
    ELSE "'" \o columns[1] \o "', " \o Joined(Tail(columns))

\* f"Missing columns: {missing}"
MissingColumns(missing) == "Missing columns: [" \o Joined(missing) \o "]"

\* (mutant) the columns are not checked; "year" is converted where it exists
load_data_unchecked(content) ==
    [raised |-> "",
     table |-> [columns |-> content.columns,
                rows |-> [i \in 1..Len(content.rows) |->
                            IF "year" \in content.columns
                            THEN [content.rows[i] EXCEPT !["year"] = to_numeric(@)]
                            ELSE content.rows[i]]]]

\* (mutant) only a CSV without "id" is refused
load_data_id_only(content) ==
    IF "id" \notin content.columns
    THEN [raised |-> MissingColumns(SelectSeq(REQUIRED, LAMBDA c : c \notin content.columns)),
          table |-> <<>>]
    ELSE load_data_unchecked(content)

\* the body of load_data_from_path and of load_data_from_bytes: read_csv,
\* the check of the columns, the conversion of "year"; the cache returns
\* what the body returns
load_data(content) ==
    LET missing == SelectSeq(REQUIRED, LAMBDA c : c \notin content.columns)
    IN  IF missing # <<>>
        THEN [raised |-> MissingColumns(missing), table |-> <<>>]
        ELSE [raised |-> "",
              table |-> [columns |-> content.columns,
                         rows |-> [i \in 1..Len(content.rows) |->
                                     [content.rows[i] EXCEPT !["year"] = to_numeric(@)]]]]

\* sorted([f for f in glob.glob('*.csv') if os.path.isfile(f)])
csv_files(dir) == SelectSeq(FileNames, LAMBDA f : f \in DOMAIN dir)

\* "strategies.csv" if it is there, else the first file, else None
default_csv(dir) ==
    IF "strategies.csv" \in Range(csv_files(dir)) THEN "strategies.csv"
    ELSE IF csv_files(dir) # <<>> THEN csv_files(dir)[1]
    ELSE None

\* pd.DataFrame(columns=REQUIRED)
EmptyTable == [columns |-> Range(REQUIRED), rows |-> <<>>]

\* @st.cache_data: a call that returns is kept under its arguments, a call
\* that raises is not
cached_path(held, path) == [held EXCEPT !.paths = @ \cup {path}]

cached_bytes(held, content) == [held EXCEPT !.bytes = @ \cup {content}]

\* the top of the script: the initial dataframe, then ensure_sessions(); a
\* ValueError of the load is not caught and ends the run
load_initial ==
    /\ pc = "load"
    /\ LET loaded ==
               IF "uploaded_bytes" \in DOMAIN session_state
               THEN load_data(session_state["uploaded_bytes"])
               ELSE IF default_csv(csv_dir) # None
               THEN load_data(csv_dir[default_csv(csv_dir)])
               ELSE [raised |-> "", table |-> EmptyTable]
       IN  IF loaded.raised # ""
           THEN /\ df' = <<>>
                /\ ui' = {"ValueError: " \o loaded.raised}
                /\ pc' = "stopped"
                /\ UNCHANGED <<session_state, cache>>
           ELSE /\ df' = <<loaded.table>>
                /\ ui' = {}
                /\ pc' = "tab_explore"
                /\ session_state' = dash_ensure_sessions(session_state)
                /\ cache' = IF "uploaded_bytes" \in DOMAIN session_state
                             THEN cached_bytes(cache, session_state["uploaded_bytes"])
                             ELSE IF default_csv(csv_dir) # None
                             THEN cached_path(cache, default_csv(csv_dir))
                             ELSE cache
    /\ filters' = NoFilters
    /\ fdf' = <<>>
    /\ UNCHANGED <<gap_df, level_name, m_avg, adv, csv_dir, uploader>>

\* sorted(y for y in df["year"].dropna().unique()), as a set
years_of(table) ==
    {table.rows[i]["year"] : i \in 1..Len(table.rows)} \ {NaN}

\* sorted([v for v in df[column].unique() if v != ""]), as a set
options_of(table, column) ==
    {table.rows[i][column] : i \in 1..Len(table.rows)} \ {""}

SetMin(S) == CHOOSE x \in S : \A y \in S : x <= y

SetMax(S) == CHOOSE x \in S : \A y \in S : x >= y

\* the text typed into "Search title/org/summary" in the model
SearchText == "strategy"

\* the values the sidebar's widgets start with: the full year range (None
\* without a year), every listed option selected, no search text
DefaultFilters(table) ==
    [yr |-> IF years_of(table) = {} THEN <<>>
            ELSE <<SetMin(years_of(table)), SetMax(years_of(table))>>,
     org_type_sel |-> options_of(table, "org_type"),
     country_sel |-> options_of(table, "country"),
     scope_sel |-> options_of(table, "scope"),
     q |-> ""]

\* the values the user can give the sidebar's widgets
FilterInputs(table) ==
    LET full == DefaultFilters(table).yr
    IN  [yr : IF full = <<>> THEN {<<>>}
              ELSE {range \in (full[1]..full[2]) \X (full[1]..full[2]) :
                        range[1] <= range[2]},
         org_type_sel : SUBSET options_of(table, "org_type"),
         country_sel : SUBSET options_of(table, "country"),
         scope_sel : SUBSET options_of(table, "scope"),
         q : {"", SearchText}]

\* Series.between(lo, hi): NaN is in no range
between(year, lo, hi) == IF year = NaN THEN FALSE ELSE lo <= year /\ year <= hi

\* fuzzy(df_in, q): the rows whose title, organisation or summary is the
\* search text; either scorer keeps those and drops a row of blank text
fuzzy(rows, q) ==
    IF q = "" THEN rows
    ELSE SelectSeq(rows, LAMBDA r : q \in {r["title"], r["organisation"], r["summary"]})

\* fdf: the copy of df narrowed by every filter that has a value
filtered(table, f) ==
    LET by_year == IF f.yr # <<>>
                   THEN SelectSeq(table.rows, LAMBDA r : between(r["year"], f.yr[1], f.yr[2]))
                   ELSE table.rows
        by_org == IF f.org_type_sel # {}
                  THEN SelectSeq(by_year, LAMBDA r : r["org_type"] \in f.org_type_sel)
                  ELSE by_year
        by_country == IF f.country_sel # {}
                      THEN SelectSeq(by_org, LAMBDA r : r["country"] \in f.country_sel)
                      ELSE by_org
        by_scope == IF f.scope_sel # {}
                    THEN SelectSeq(by_country, LAMBDA r : r["scope"] \in f.scope_sel)
                    ELSE by_country
    IN  fuzzy(by_scope, f.q)

\* what the user did in the "Data source & reload" expander since the last run
ExploreInputs ==
    {[kind |-> k, file |-> <<>>, sel |-> ""] :
        k \in {"nothing", "remove upload", "Reload", "Hard refresh"}}
    \cup {[kind |-> "upload", file |-> <<c>>, sel |-> ""] : c \in CsvContents}
    \cup {[kind |-> "Load selected file", file |-> <<>>, sel |-> f] : f \in Range(FileNames)}

\* the Explore tab: the data-source expander (the uploader, the selectbox
\* with "Load selected file", the two reload buttons, the handling of the
\* upload), then the sidebar's filters and the filtered rows
tab_explore ==
    /\ pc = "tab_explore"
    /\ \E input \in ExploreInputs :
         LET uploaded == IF input.kind = "upload" THEN input.file
                         ELSE IF input.kind = "remove upload" THEN <<>>
                         ELSE uploader
             clicked == input.kind = "Load selected file"
             selected == load_data(csv_dir[input.sel])
             popped == IF clicked THEN Without(session_state, "uploaded_bytes")
                       ELSE session_state
             shown == IF ~clicked THEN {}
                      ELSE IF selected.raised = "" THEN {"Loaded " \o input.sel}
                      ELSE {selected.raised}
             kept == IF clicked /\ selected.raised = "" THEN <<selected.table>> ELSE df
             upload == load_data(uploaded[1])
             cleared == IF ~clicked THEN cache
                        ELSE IF selected.raised = "" THEN cached_path(EmptyCache, input.sel)
                        ELSE EmptyCache
         IN  /\ clicked => input.sel \in DOMAIN csv_dir
             /\ input.kind = "remove upload" => uploader # <<>>
             /\ IF input.kind = "Reload"
                THEN /\ session_state' = session_state
                     /\ uploader' = uploaded
                     /\ df' = <<>>
                     /\ cache' = EmptyCache
                     /\ ui' = {"rerun"}
                     /\ UNCHANGED <<filters, fdf>>
                ELSE IF input.kind = "Hard refresh"
                THEN /\ session_state' = EmptySession
                     /\ uploader' \in {uploaded, <<>>}
                     /\ df' = <<>>
                     /\ cache' = EmptyCache
                     /\ ui' = {"rerun"}
                     /\ UNCHANGED <<filters, fdf>>
                ELSE IF uploaded # <<>> /\ upload.raised = ""
                THEN /\ session_state' = Put(popped, "uploaded_bytes", uploaded[1])
                     /\ uploader' = uploaded
                     /\ df' = <<>>
                     /\ cache' = EmptyCache
                     /\ ui' = shown \cup {"Loaded uploaded CSV", "rerun"}
                     /\ UNCHANGED <<filters, fdf>>
                ELSE /\ session_state' = popped
                     /\ uploader' = uploaded
                     /\ df' = kept
                     /\ cache' = cleared
                     /\ ui' = IF uploaded # <<>>
                              THEN shown \cup {"Upload error: " \o upload.raised}
                              ELSE shown
                     /\ \E f \in FilterInputs(kept[1]) :
                          /\ filters' = f
                          /\ fdf' = <<filtered(kept[1], f)>>
    /\ pc' = "load"
    /\ UNCHANGED <<gap_df, level_name, m_avg, adv, csv_dir>>

InitData ==
    /\ session_state = EmptySession
    /\ pc = "load"
    /\ gap_df = <<>>
    /\ level_name = ""
    /\ m_avg = NoAverage
    /\ ui = {}
    /\ adv = NoCall
    /\ csv_dir \in Directories
    /\ uploader = <<>>
    /\ df = <<>>
    /\ cache = EmptyCache
    /\ filters = NoFilters
    /\ fdf = <<>>

NextData ==
    \/ load_initial
    \/ tab_explore

SpecData == InitData /\ [][NextData]_vars

(***************************************************************************)
(* Properties of the gap report                                            *)
(***************************************************************************)

Rows == 1..Len(gap_df)

AxisIndex(d) == CHOOSE i \in 1..Len(AXES) : AXES[i].name = d

GovernanceRows == {i \in Rows : gap_df[i].Lens = "Governance Structure"}

\* C1: every conflict row stands before every non-conflict row, and among rows
\* with the same conflict value the magnitude never increases down the report.
C1_ConflictsFirstThenMagnitude ==
    \A i, j \in Rows :
        i < j =>
            /\ ~(~gap_df[i].Conflict /\ gap_df[j].Conflict)
            /\ gap_df[i].Conflict = gap_df[j].Conflict =>
                   gap_df[i].Magnitude >= gap_df[j].Magnitude

\* C1 witness: a report in which a conflict row stands above a non-conflict row
\* of larger magnitude, and two rows of one conflict value differ in magnitude.
C1_Witness ==
    /\ \E i, j \in Rows :
          /\ i < j
          /\ gap_df[i].Conflict /\ ~gap_df[j].Conflict
          /\ gap_df[i].Magnitude < gap_df[j].Magnitude
    /\ \E i, j \in Rows :
          /\ i < j
          /\ gap_df[i].Conflict = gap_df[j].Conflict
          /\ gap_df[i].Magnitude > gap_df[j].Magnitude

\* C2: rows with the same conflict flag and the same magnitude stand in the
\* declaration order of AXES (the dashboard.py rows carry no conflict flag).
C2_TiesInDeclarationOrder ==
    \A i, j \in Rows :
        (/\ i < j
         /\ gap_df[i].Magnitude = gap_df[j].Magnitude
         /\ "Conflict" \in DOMAIN gap_df[i] => gap_df[i].Conflict = gap_df[j].Conflict)
        => AxisIndex(gap_df[i].Lens) < AxisIndex(gap_df[j].Lens)

\* C3: the report has exactly ten rows, one per axis, none twice, none missing.
C3_TenRowsOnePerAxis ==
    "gap_table" \in ui =>
        /\ Len(gap_df) = 10
        /\ {gap_df[i].Lens : i \in Rows} = Range(DIMENSIONS)
        /\ \A i, j \in Rows : gap_df[i].Lens = gap_df[j].Lens => i = j

\* C3 witness: a report built from profiles that differ on some axis and agree on others.
C3_Witness ==
    /\ "gap_table" \in ui
    /\ Len(gap_df) = 10
    /\ \E i, j \in Rows : gap_df[i].Magnitude # 0 /\ gap_df[j].Magnitude = 0

\* C4: change_needed is target - current of the session's profiles, magnitude is
\* its absolute value; magnitude lies in 0..100 and change_needed in -100..100.
C4_ChangeAndMagnitude ==
    \A i \in Rows :
        LET r == gap_df[i]
            cur == session_state["_current_scores"][r.Lens]
            tgt == session_state["_target_scores"][r.Lens]
        IN  /\ r.Current = cur /\ r.Target = tgt
            /\ r.Change_needed = tgt - cur
            /\ r.Magnitude = (IF tgt >= cur THEN tgt - cur ELSE cur - tgt)
            /\ r.Magnitude \in 0..100
            /\ r.Change_needed \in -100..100

\* C4 witness: a report with a negative and a positive change.
C4_Witness ==
    /\ \E i \in Rows : gap_df[i].Change_needed < 0 /\ gap_df[i].Magnitude = -gap_df[i].Change_needed
    /\ \E i \in Rows : gap_df[i].Change_needed > 0

\* C5: the direction is the dash placeholder exactly when change_needed is 0,
\* names the axis's right label when it is positive and its left label when negative.
C5_Direction ==
    \A i \in Rows :
        LET r == gap_df[i]
            axis == AXES[AxisIndex(r.Lens)]
        IN  /\ r.Direction = "-" <=> r.Change_needed = 0
            /\ r.Change_needed > 0 => r.Direction = "-> **" \o axis.right \o "**"
            /\ r.Change_needed < 0 => r.Direction = "-> **" \o axis.left \o "**"

\* C5 witness: a report with a row of each direction.
C5_Witness ==
    /\ \E i \in Rows : gap_df[i].Change_needed = 0 /\ gap_df[i].Direction = "-"
    /\ \E i \in Rows : gap_df[i].Change_needed > 0 /\ gap_df[i].Direction # "-"
    /\ \E i \in Rows : gap_df[i].Change_needed < 0 /\ gap_df[i].Direction # "-"

\* the scenario of C10 has been run
C10_Scenario ==
    /\ gap_df # <<>>
    /\ level_name = "Mastering"
    /\ session_state["_current_scores"]["Governance Structure"] = 80
    /\ session_state["_target_scores"]["Governance Structure"] = 20

\* C10: current 80 and target 20 on Governance Structure at Mastering give a row
\* with change_needed -60, direction toward "Ecosystem / Federated", no conflict.
C10_GovernanceAtMastering ==
    C10_Scenario =>
        /\ GovernanceRows # {}
        /\ \A i \in GovernanceRows :
              /\ gap_df[i].Change_needed = -60
              /\ gap_df[i].Direction = "-> **Ecosystem / Federated**"
              /\ ~gap_df[i].Conflict
              /\ gap_df[i].Conflict_note = ""
        /\ \A k \in 1..Len(session_state["_actions_df"]) :
              session_state["_actions_df"][k].Lens = "Governance Structure" =>
                  session_state["_actions_df"][k].Direction = "toward Ecosystem / Federated"

\* C10 witness: the scenario, with the Governance Structure row in the report
\* and among the seeded actions.
C10_Witness ==
    /\ C10_Scenario
    /\ \E i \in GovernanceRows : gap_df[i].Magnitude = 60
    /\ \E k \in 1..Len(session_state["_actions_df"]) :
          session_state["_actions_df"][k].Lens = "Governance Structure"

(***************************************************************************)
(* Properties of the maturity aggregation                                  *)
(***************************************************************************)

\* the number of a level of the scale, 1 (Beginning) .. 5 (Mastering)
LevelNumber(level) ==
    CASE level = "Beginning" -> 1
      [] level = "Emerging" -> 2
      [] level = "Learning" -> 3
      [] level = "Developing" -> 4
      [] level = "Mastering" -> 5

\* the session's maturity profile
Profile == session_state["_maturity_scores"]

\* the six theme scores added up, theme by theme
ProfileSum ==
    Profile["Uses"] + Profile["Data"] + Profile["Leadership"]
        + Profile["Culture"] + Profile["Tools"] + Profile["Skills"]

\* |6 * k - ProfileSum|: six times the distance of the integer k from the average
Distance6(k) == IF 6 * k >= ProfileSum THEN 6 * k - ProfileSum ELSE ProfileSum - 6 * k

\* C11: for every profile of six theme scores in 1..5 the average is the sum
\* divided by six and the level is the one whose number, among 1..5, is an
\* integer nearest to the average; all themes at 1 give Beginning, all at 5
\* give Mastering.
C11_LevelIsNearestToAverage ==
    m_avg # NoAverage =>
        /\ m_avg.num = ProfileSum /\ m_avg.den = 6
        /\ level_name \in Range(MATURITY_SCALE)
        /\ \A k \in 1..5 : Distance6(LevelNumber(level_name)) <= Distance6(k)
        /\ (\A t \in DOMAIN Profile : Profile[t] = 1) => level_name = "Beginning"
        /\ (\A t \in DOMAIN Profile : Profile[t] = 5) => level_name = "Mastering"

\* C11 witness: a profile adding up to 16 (average 2.67) is at Learning.
C11_Witness ==
    /\ m_avg # NoAverage
    /\ ProfileSum = 16
    /\ level_name = "Learning"

\* C12: a run in which one theme's score goes up by one and no other theme
\* changes lowers neither the average nor the level.
C12_AggregateIsMonotonic ==
    [][(/\ m_avg # NoAverage
        /\ m_avg' # NoAverage
        /\ \E t \in DOMAIN Profile :
              /\ Profile'[t] = Profile[t] + 1
              /\ \A u \in DOMAIN Profile \ {t} : Profile'[u] = Profile[u])
       => /\ m_avg'.num * m_avg.den >= m_avg.num * m_avg'.den
          /\ LevelNumber(level_name') >= LevelNumber(level_name)]_vars

\* C12 witness: one theme raised from the default 3 to 4, the level computed.
C12_Witness ==
    /\ m_avg # NoAverage
    /\ Cardinality({t \in DOMAIN Profile : Profile[t] = 4}) = 1
    /\ Cardinality({t \in DOMAIN Profile : Profile[t] = 3}) = 5
    /\ level_name = "Learning"

(***************************************************************************)
(* Properties of render_journey on profiles that are not valid             *)
(***************************************************************************)

\* the keys and the values of the dict f are not those of a valid profile
NotValid(f, keys, lo, hi) ==
    DOMAIN f # keys \/ \E k \in DOMAIN f : f[k] \notin lo..hi

\* some profile of the session is not valid
InvalidProfile ==
    \/ NotValid(session_state["_current_scores"], Range(DIMENSIONS), ScoreMin, ScoreMax)
    \/ NotValid(session_state["_target_scores"], Range(DIMENSIONS), ScoreMin, ScoreMax)
    \/ NotValid(session_state["_maturity_scores"], Range(MATURITY_THEMES), MaturityMin, MaturityMax)

\* render_journey has run on a session with a profile that is not valid
RanOnInvalid == pc = "lenses" /\ ui # {} /\ InvalidProfile

\* an axis is absent from the current or the target profile
AxisAbsent ==
    \E d \in Range(DIMENSIONS) :
        d \notin DOMAIN session_state["_current_scores"]
            \/ d \notin DOMAIN session_state["_target_scores"]

\* nothing of a report is there: no gap rows, no action rows, no level
NoReport ==
    /\ gap_df = <<>>
    /\ session_state["_actions_df"] = <<>>
    /\ level_name = ""

Actions == session_state["_actions_df"]

\* the Journey tab has seeded the actions in this run
Seeded == "priority_shifts" \in ui

C15_ActionDirection ==
    Seeded =>
        \A k \in 1..Len(Actions) :
            LET a == Actions[k]
                axis == AXES[AxisIndex(a.Lens)]
                change == session_state["_target_scores"][a.Lens]
                              - session_state["_current_scores"][a.Lens]
            IN  /\ change > 0 => a.Direction = "toward " \o axis.right
                /\ change < 0 => a.Direction = "toward " \o axis.left
                /\ change = 0 => a.Direction = "no change"
                /\ a.Owner = "" /\ a.Timeline = "" /\ a.Metric = "" /\ a.Status = ""

\* C15 witness: actions toward a left label, toward a right label and with no change.
C15_Witness ==
    /\ Seeded
    /\ \E k \in 1..Len(Actions) : Actions[k].Direction = "toward Ecosystem / Federated"
    /\ \E k \in 1..Len(Actions) : Actions[k].Direction = "toward Big Bang"
    /\ \E k \in 1..Len(Actions) : Actions[k].Direction = "no change"

\* current and target are both 50 on every axis, and the Journey tab has run
AllFifty ==
    /\ "gap_table" \in ui
    /\ session_state["_current_scores"] = [d \in Range(DIMENSIONS) |-> 50]
    /\ session_state["_target_scores"] = [d \in Range(DIMENSIONS) |-> 50]

\* C16: with current and target 50 on all ten axes, at every maturity level,
\* all ten rows have change_needed 0 and the dash for a direction, and the
\* seeded actions are always the same three rows, each "no change".
C16_AllFiftyNoChange ==
    AllFifty =>
        /\ Len(gap_df) = 10
        /\ \A i \in Rows : gap_df[i].Change_needed = 0 /\ gap_df[i].Direction = "-"
        /\ Len(Actions) = 3
        /\ \A k \in 1..Len(Actions) :
              /\ Actions[k].Direction = "no change"
              /\ Actions[k].Lens = DIMENSIONS[k]
              /\ Actions[k].Priority = k

\* C16 witness: the scenario at Beginning, where the low-readiness rules apply.
C16_Witness ==
    /\ AllFifty
    /\ level_name = "Beginning"
    /\ Len(Actions) = 3
    /\ Actions[3].Direction = "no change"

(***************************************************************************)
(* Properties of the session state                                         *)
(***************************************************************************)

ProfileKeys == {"_current_scores", "_target_scores", "_maturity_scores"}

\* the value ensure_sessions gives a profile that is absent
DefaultProfile(key) ==
    IF key = "_maturity_scores"
    THEN [t \in Range(MATURITY_THEMES) |-> 3]
    ELSE [d \in Range(DIMENSIONS) |-> 50]

\* C17 as stated: the Journey computation writes no session state -- the
\* session state after the run equals the session state before it.
C17_SessionUnchanged ==
    [][pc = "journey" => session_state' = session_state]_vars

\* C17 amended: the Journey computation reads the three profiles and leaves
\* every one that is present as it was, but it does write session state: it
\* stores the three seeded actions under "_actions_df", and (ensure_sessions)
\* the default of every profile that was absent.
C17_WritesActionsOnly ==
    [][pc = "journey" =>
          /\ \A k \in ProfileKeys :
                /\ k \in DOMAIN session_state'
                /\ session_state'[k] = IF k \in DOMAIN session_state
                                        THEN session_state[k]
                                        ELSE DefaultProfile(k)
          /\ DOMAIN session_state' = DOMAIN session_state \cup ProfileKeys \cup {"_actions_df"}
          /\ Len(session_state'["_actions_df"]) = 3]_vars

\* C17 witness: after a run on profiles the user has moved, the profiles are
\* still those and three actions are in the session.
C17_Witness ==
    /\ pc = "lenses"
    /\ Seeded
    /\ Len(Actions) = 3
    /\ session_state["_target_scores"]["Delivery Mode"] = 80
    /\ session_state["_current_scores"]["Delivery Mode"] = 20

\* the profiles f and g differ in the value of exactly one slider
OneSliderMoved(f, g) ==
    /\ DOMAIN f = DOMAIN g
    /\ Cardinality({x \in DOMAIN f : f[x] # g[x]}) = 1

\* the step runs a tab that draws sliders
SliderRun == pc \in {"lenses", "tab_lenses"}

\* the step is the dashboard's hard refresh
HardRefreshStep == pc = "tab_lenses" /\ session_state' = EmptySession

\* in every step: a profile that is present keeps its value unless the run's
\* slider moved it, and a profile that appears has its default
PresentKeptAbsentDefaulted ==
    \A k \in ProfileKeys :
        /\ (k \in DOMAIN session_state /\ k \in DOMAIN session_state'
                /\ session_state'[k] # session_state[k])
               => SliderRun /\ OneSliderMoved(session_state[k], session_state'[k])
        /\ (k \notin DOMAIN session_state /\ k \in DOMAIN session_state')
               => session_state'[k] = DefaultProfile(k)

\* in every step that calls an ensure_sessions the profiles it is in charge of
\* are present afterwards
EnsuredPresent ==
    /\ pc \in {"lenses", "journey"} => ProfileKeys \subseteq DOMAIN session_state'
    /\ (pc = "tab_lenses" /\ ~HardRefreshStep)
           => {"_current_scores", "_target_scores"} \subseteq DOMAIN session_state'

\* C18 as stated: ensure_sessions leaves every profile that is present as it
\* is and gives every absent one its default, and a profile changes afterwards
\* only through a slider.
C18_OnlySlidersChangeProfiles ==
    [][/\ PresentKeptAbsentDefaulted
       /\ ProfileKeys \cap DOMAIN session_state \subseteq DOMAIN session_state']_vars

\* C18 amended: ensure_sessions leaves every profile that is present as it is
\* and gives every absent one its default (dashboard.py keeps the two score
\* profiles only); a profile changes afterwards through a slider, or through
\* the dashboard's "Hard refresh", which deletes the profiles so that the next
\* run gives them their defaults again.
C18_SlidersOrHardRefresh ==
    [][/\ PresentKeptAbsentDefaulted
       /\ EnsuredPresent
       /\ \A k \in ProfileKeys :
             (k \in DOMAIN session_state /\ k \notin DOMAIN session_state') => HardRefreshStep]_vars

\* C18 witness: the dashboard after a slider has moved a target score, the
\* other scores at their defaults.
C18_Witness ==
    /\ pc = "tab_journey"
    /\ session_state["_target_scores"]["Ambition"] = 80
    /\ session_state["_current_scores"] = DefaultProfile("_current_scores")
    /\ "_maturity_scores" \notin DOMAIN session_state

(***************************************************************************)
(* Properties of the dashboard's data source                               *)
(***************************************************************************)

\* the required columns that the CSV content lacks, in the order of REQUIRED
Lacking(content) == SelectSeq(REQUIRED, LAMBDA c : c \notin content.columns)

\* the text of the error for the CSV content
LackingText(content) == "Missing columns: [" \o Joined(Lacking(content)) \o "]"

ElevenColumns ==
    {"id", "title", "organisation", "org_type", "country", "year", "scope",
     "link", "summary", "source", "date_added"}

\* the run came to the end of the upload handling, not stopped by a rerun
UploadHandled == pc = "load" /\ ui # {} /\ "rerun" \notin ui

\* C19: whatever the source, a table of the run has all eleven required
\* columns, and so has a stored upload; a default file lacking a column ends
\* the run with the "Missing columns" error and no table, a selected file
\* lacking one leaves the table as it was, and an upload lacking one is
\* answered with "Upload error: Missing columns ..." and is not stored.
C19_RequiredColumnsOrError ==
    /\ df # <<>> => ElevenColumns \subseteq df[1].columns
    /\ "uploaded_bytes" \in DOMAIN session_state =>
           ElevenColumns \subseteq session_state["uploaded_bytes"].columns
    /\ pc = "stopped" =>
           /\ df = <<>>
           /\ "uploaded_bytes" \notin DOMAIN session_state
           /\ Lacking(csv_dir[default_csv(csv_dir)]) # <<>>
           /\ ui = {"ValueError: " \o LackingText(csv_dir[default_csv(csv_dir)])}
    /\ (pc = "tab_explore" /\ "uploaded_bytes" \notin DOMAIN session_state
            /\ default_csv(csv_dir) # None)
           => Lacking(csv_dir[default_csv(csv_dir)]) = <<>>
    /\ (UploadHandled /\ uploader # <<>>) =>
           /\ Lacking(uploader[1]) # <<>>
           /\ "Upload error: " \o LackingText(uploader[1]) \in ui
           /\ "uploaded_bytes" \in DOMAIN session_state =>
                  session_state["uploaded_bytes"] # uploader[1]
    /\ \A f \in DOMAIN csv_dir :
           /\ "Loaded " \o f \in ui => Lacking(csv_dir[f]) = <<>>
           /\ (Lacking(csv_dir[f]) # <<>> /\ LackingText(csv_dir[f]) \in ui
                   /\ "rerun" \notin ui)
                  => df # <<>> /\ ElevenColumns \subseteq df[1].columns

\* C19 witness: an upload without the "year" column has been refused while
\* the table of the run, loaded from the default file, is complete.
C19_Witness ==
    /\ UploadHandled
    /\ uploader = <<NoYearCsv>>
    /\ "Upload error: Missing columns: ['year']" \in ui
    /\ df # <<>>
    /\ "year" \in df[1].columns
    /\ Len(df[1].rows) > 0

(***************************************************************************)
(* Properties of conflict_for_target: where it is silent                   *)
(***************************************************************************)

\* the axes that some rule names
RuledAxes ==
    {"Delivery Mode", "Governance Structure", "Access Philosophy",
     "Decision Model", "Motivation"}

\* C20: a message is returned only for one of the five ruled axes and only at
\* a level other than Learning; for the other five axes, and for every axis
\* at Learning, nothing is returned whatever the target score in 0..100.
C20_SilentElsewhere ==
    adv.returned =>
        /\ adv.result # None =>
               adv.lens_name \in RuledAxes /\ AdvLevel # "Learning"
        /\ (adv.lens_name \notin RuledAxes \/ AdvLevel = "Learning") =>
               adv.result = None /\ adv.matched = {}

\* C20 witness: Delivery Mode with target 100 at Learning returns nothing.
C20_Witness ==
    /\ adv.returned
    /\ AdvLevel = "Learning"
    /\ adv.lens_name = "Delivery Mode"
    /\ adv.target_score = 100
    /\ adv.result = None

(***************************************************************************)
(* Properties of the maturity aggregation at exact halves                  *)
(***************************************************************************)

\* C21: when the six scores add up to 9, 15, 21 or 27 (averages 1.5, 2.5, 3.5,
\* 4.5) the level is the even-numbered neighbour: Emerging, Emerging,
\* Developing, Developing.
C21_HalvesToEvenLevel ==
    m_avg # NoAverage =>
        /\ ProfileSum = 9 => level_name = "Emerging"
        /\ ProfileSum = 15 => level_name = "Emerging"
        /\ ProfileSum = 21 => level_name = "Developing"
        /\ ProfileSum = 27 => level_name = "Developing"

\* C21 witness: scores adding up to 15 (average 2.5) mapped down to Emerging.
C21_Witness ==
    /\ m_avg # NoAverage
    /\ ProfileSum = 15
    /\ 2 * m_avg.num = 5 * m_avg.den
    /\ level_name = "Emerging"

(***************************************************************************)
(* Properties of the Journey view's notice                                 *)
(***************************************************************************)

\* the target equals the current score on all ten axes
ProfilesIdentical ==
    \A d \in Range(DIMENSIONS) :
        session_state["_target_scores"][d] = session_state["_current_scores"][d]

\* C22: in a Journey view the notice "Current and target are identical - no
\* change required" is shown exactly when the target equals the current score
\* on all ten axes, the "Priority shifts (top 3)" list exactly when some axis
\* differs.
C22_NoticeIffIdentical ==
    "gap_table" \in ui =>
        /\ "identical_notice" \in ui <=> ProfilesIdentical
        /\ "priority_shifts" \in ui <=> ~ProfilesIdentical

(***************************************************************************)
(* Properties of the upload and of "Load selected file" across runs        *)
(***************************************************************************)

\* the file in the uploader is the one already stored as uploaded_bytes
UploadAlreadyStored ==
    /\ uploader # <<>>
    /\ "uploaded_bytes" \in DOMAIN session_state
    /\ session_state["uploaded_bytes"] = uploader[1]

\* C23: once an uploaded CSV has been stored, a run in which the same file is
\* still in the uploader does not handle it as a new upload again: the upload
\* handling requests no further rerun.
C23_NoRerunForStoredUpload ==
    [][(pc = "tab_explore" /\ UploadAlreadyStored /\ uploader' = uploader)
          => "Loaded uploaded CSV" \notin ui']_vars

\* the table that the file f of the directory gives
TableOf(f) == load_data(csv_dir[f]).table

\* "Load selected file" has just succeeded for the file f
SelectedLoaded(f) == pc = "load" /\ "Loaded " \o f \in ui

\* C24: after "Load selected file" has succeeded for a file, the table of
\* the next run, with no other load or upload in between, is that file's.
C24_SelectedFileStays ==
    [][\A f \in DOMAIN csv_dir :
          (SelectedLoaded(f) /\ pc' # "stopped") => df' = <<TableOf(f)>>]_vars

(***************************************************************************)
(* Properties of a refused upload                                          *)
(***************************************************************************)

\* the error that the upload handling shows for the CSV content
UploadErrorText(content) == "Upload error: " \o LackingText(content)

\* a run of the Explore tab reaches the upload handling with a file that
\* lacks a required column: neither reload button has ended the run before
RefusedUploadRun ==
    /\ pc = "tab_explore"
    /\ uploader' # <<>>
    /\ Lacking(uploader'[1]) # <<>>
    /\ ui' # {"rerun"}

\* C25: an upload that lacks a required column is answered with the upload
\* error naming the columns; nothing is stored and no rerun is requested, and
\* the score profiles keep their values; in a run where nothing else was
\* clicked the session (a stored uploaded_bytes included), the cache and the
\* table of the run are what they were.
C25_RefusedUploadChangesNothing ==
    [][RefusedUploadRun =>
          /\ UploadErrorText(uploader'[1]) \in ui'
          /\ "Loaded uploaded CSV" \notin ui'
          /\ "rerun" \notin ui'
          /\ \A k \in DOMAIN session_state \ {"uploaded_bytes"} :
                 k \in DOMAIN session_state' /\ session_state'[k] = session_state[k]
          /\ "uploaded_bytes" \in DOMAIN session_state'
                 => /\ "uploaded_bytes" \in DOMAIN session_state
                    /\ session_state'["uploaded_bytes"] = session_state["uploaded_bytes"]
          /\ ui' = {UploadErrorText(uploader'[1])}
                 => /\ session_state' = session_state
                    /\ cache' = cache
                    /\ df' = df]_vars

\* C25 witness: an upload without the "year" column has been refused in a
\* run that shows the earlier, stored upload, which is still stored and
\* still cached.
C25_Witness ==
    /\ pc = "load"
    /\ uploader = <<NoYearCsv>>
    /\ ui = {UploadErrorText(NoYearCsv)}
    /\ "uploaded_bytes" \in DOMAIN session_state
    /\ session_state["uploaded_bytes"] = WiderCsv
    /\ WiderCsv \in cache.bytes
    /\ df = <<load_data(WiderCsv).table>>

(***************************************************************************)
(* Properties of the Explore tab's filters                                 *)
(***************************************************************************)

\* the run has rendered the sidebar with every filter at its default
FiltersAtDefault ==
    /\ pc = "load"
    /\ df # <<>>
    /\ fdf # <<>>
    /\ filters = DefaultFilters(df[1])

\* C26: with every filter at its default the rows shown are all the rows of
\* the loaded table.
C26_DefaultFiltersShowAll == FiltersAtDefault => fdf[1] = df[1].rows

====
